---- MODULE Spec2Model ----
(***************************************************************************)
(* Economic-calendar subsystem of JournalX_Backend:                        *)
(*   app/services/economic_calendar_service.py  (sync, status, scheduler)  *)
(*   app/services/finnhub_service.py            (REST adapter)             *)
(*   app/services/fair_economy_service.py       (XML feed adapter)         *)
(*   app/services/forex_factory_scraper.py      (HTML scraper adapter)     *)
(* The events collection is a MongoDB collection without a unique index:   *)
(* it is a list of documents in insertion (natural) order.                 *)
(***************************************************************************)
EXTENDS Integers, Sequences, FiniteSets, TLC

\* ---------------------------------------------------------------- bounds
MaxTime == 1          \* the clock runs over 0..MaxTime
MaxBatch == 2         \* a fetched batch holds at most MaxBatch records
MaxTicks == 6         \* the scraper's clock advances at most MaxTicks times
MaxAnnotations == 2   \* marks, notes and links hold at most MaxAnnotations documents together
MaxShutdowns == 2     \* at most MaxShutdowns scheduler shutdowns wait on the event loop
MaxStored == 2        \* the store queried through GET /events holds at most MaxStored events

\* ---------------------------------------------------------------- program constants
RATE_LIMIT_SECONDS == 30

\* ---------------------------------------------------------------- values
\* Python's None / BSON null
NULL == "<None>"

\* One event of the REST source and one of the XML feed; the prefixes keep the
\* two adapters' keys apart
FinnhubIds == {"fh_1"}
FairIds == {"ff_1"}
UniqueIds == FinnhubIds \cup FairIds

\* unique_id is built from country, timestamp and name, so these fields are
\* functions of it (finnhub_service.py:78, fair_economy_service.py:49).
EventTimeOf(uid) == IF uid \in FinnhubIds THEN 0 ELSE 1
CountryOf(uid) == IF uid \in FinnhubIds THEN "US" ELSE "EUR"
CurrencyOf(uid) == IF uid \in FinnhubIds THEN "USD" ELSE "EUR"
EventNameOf(uid) == IF uid \in FinnhubIds THEN "CPI (MoM)" ELSE "Core CPI"

\* datetime -> midnight of the same day; one day is two clock ticks
EventDateOf(t) == t - (t % 2)

ImpactLevels == {"high", "low"}
Statuses == {"upcoming", "released"}
ActualValues == {NULL, "", "0.4%"}
ForecastValues == {"", "0.3%"}
PreviousValues == {"0.2%", "0.1%"}

\* BSON values carry a type; a datetime is stored as a BSON date
BsonDate(t) == <<"date", t>>
BsonString(t) == <<"string", t>>

\* datetime.isoformat(): the ISO string of a time; ISO strings of one format
\* order like the times they denote
IsoFormat(t) == BsonString(t)

\* MongoDB comparison operators match only values of the operand's BSON type
BsonLt(a, b) == a[1] = b[1] /\ a[2] < b[2]
BsonGte(a, b) == a[1] = b[1] /\ a[2] >= b[2]

\* An ObjectId and the string str() makes of it are different BSON values
ObjectId(n) == <<"oid", n>>
StrOfId(n) == <<"str", n>>

\* The users of the API
Users == {"u1", "u2"}

\* The event ids a client sends: the strings it was given for stored events
EventIds == {StrOfId(1), StrOfId(2)}

\* ---------------------------------------------------------------- state
VARIABLES
    events,     \* db.economic_events: documents in natural order
    nextId,     \* the next ObjectId insert_one assigns
    now,        \* datetime.utcnow()
    last,       \* the last pipeline call: the adapters it invoked, what it answered
    procs,      \* overlapping cycles run by separate processes: where each is
    marks,      \* db.user_event_marks
    notes,      \* db.event_notes
    links,      \* db.event_trade_links
    reminders,  \* db.event_reminders
    flagged,    \* per user and event id, the flag of the latest mark_event_important call
    clock,      \* time.time(), in seconds
    last_request_time,  \* forex_factory_scraper.last_request_time
    calls,      \* overlapping calls of the scraper singleton: where each is
    issued,     \* the upstream requests of the scraper: the latest, the smallest gap
    sched       \* the module-level scheduler and the service's scheduler_started

annotations == <<marks, notes, links, reminders, flagged>>

limiter == <<clock, last_request_time, calls, issued>>

vars == <<events, nextId, now, last, procs, annotations, sched, limiter>>

\* A fetched record, as every adapter builds it
FetchedEvent(uid, impact, actual, forecast, previous, status, fetchedAt) ==
    [ unique_id      |-> uid,
      event_date     |-> BsonDate(EventDateOf(EventTimeOf(uid))),
      event_time_utc |-> BsonDate(EventTimeOf(uid)),
      country        |-> CountryOf(uid),
      currency       |-> CurrencyOf(uid),
      impact_level   |-> impact,
      event_name     |-> EventNameOf(uid),
      actual         |-> actual,
      forecast       |-> forecast,
      previous       |-> previous,
      status         |-> status,
      fetched_at     |-> fetchedAt ]

\* ---------------------------------------------------------------- store
\* Positions of the documents matching {"unique_id": uid}, in natural order
Matching(coll, uid) == {i \in 1..Len(coll) : coll[i].unique_id = uid}

Min(S) == CHOOSE x \in S : \A y \in S : x <= y

\* find_one({"unique_id": uid}): position of the first match, 0 for None
FindOne(coll, uid) == IF Matching(coll, uid) = {} THEN 0 ELSE Min(Matching(coll, uid))

\* {"$set": upd} applied to one document
ApplySet(doc, upd) ==
    [f \in DOMAIN doc |-> IF f \in DOMAIN upd THEN upd[f] ELSE doc[f]]

\* insert_one(event): the document stored, with the _id the driver assigns
InsertedDoc(event, id, t) ==
    [f \in DOMAIN event \cup {"_id", "created_at", "updated_at"} |->
        IF f = "_id" THEN id
        ELSE IF f \in {"created_at", "updated_at"} THEN t
        ELSE event[f]]

\* ---------------------------------------------------------------- sync engine
ComparedFields == {"actual", "forecast", "previous", "status"}

\* the fields of update_fields set by the four comparisons
ChangedFields(event, existing) ==
    {f \in ComparedFields : event[f] # existing[f]}

\* UpdateFields with every compared field put in the $set, changed or not
UpdateFields_AllCompared(event, existing, t) ==
    [f \in ComparedFields \cup {"updated_at", "fetched_at"} |->
        IF f = "updated_at" THEN t ELSE event[f]]

\* update_fields as passed to $set (only built when some field changed)
UpdateFields(event, existing, t) ==
    [f \in ChangedFields(event, existing) \cup {"updated_at", "fetched_at"} |->
        IF f = "updated_at" THEN t ELSE event[f]]

NoCounts == [created |-> 0, updated |-> 0, skipped |-> 0]

\* Existing that looks at the first document only
Existing_FirstOnly(coll, uid) ==
    IF coll # <<>> /\ coll[1].unique_id = uid THEN <<coll[1]>> ELSE <<>>

\* find_one({"unique_id": uid}) as the loop sees it: <<>> for None, else <<doc>>
Existing(coll, uid) ==
    IF FindOne(coll, uid) = 0 THEN <<>> ELSE <<coll[FindOne(coll, uid)]>>

\* update_one({"unique_id": uid}, {"$set": upd}): the first match is updated
UpdateOne(coll, uid, upd) ==
    IF FindOne(coll, uid) = 0 THEN coll
    ELSE [coll EXCEPT ![FindOne(coll, uid)] = ApplySet(@, upd)]

\* The rest of one loop iteration once find_one has answered `existing`.
\* st = [events, nextId, counts, writes, failed]
SyncWrite(st, event, existing, t) ==
    IF existing # <<>>
    THEN IF ChangedFields(event, existing[1]) # {}
         THEN LET upd == UpdateFields(event, existing[1], t) IN
              [st EXCEPT
                 !.events = UpdateOne(@, event.unique_id, upd),
                 !.counts.updated = @ + 1,
                 !.writes = Append(@, [op |-> "update", id |-> existing[1]._id,
                                       fields |-> DOMAIN upd, event |-> event])]
         ELSE [st EXCEPT !.counts.skipped = @ + 1]
    ELSE LET doc == InsertedDoc(event, st.nextId, t) IN
         [st EXCEPT
            !.events = Append(@, doc),
            !.nextId = @ + 1,
            !.counts.created = @ + 1,
            !.writes = Append(@, [op |-> "insert", id |-> doc._id,
                                  fields |-> DOMAIN doc, event |-> event])]

\* One iteration of the for loop of sync_events_to_db. event["unique_id"] on a
\* dict without that key raises KeyError: the except clause logs it and the
\* loop continues with no counter touched (st.failed counts these records)
SyncOne(st, event, t) ==
    IF "unique_id" \notin DOMAIN event
    THEN [st EXCEPT !.failed = @ + 1]
    ELSE SyncWrite(st, event, Existing(st.events, event.unique_id), t)

\* SyncLoop that gives up at the first record whose processing fails
RECURSIVE SyncLoop_StopsAtFailure(_, _, _)
SyncLoop_StopsAtFailure(st, batch, t) ==
    IF batch = <<>> \/ "unique_id" \notin DOMAIN Head(batch) THEN st
    ELSE SyncLoop_StopsAtFailure(SyncWrite(st, Head(batch),
                                           Existing(st.events, Head(batch).unique_id), t),
                                 Tail(batch), t)

RECURSIVE SyncLoop(_, _, _)
SyncLoop(st, batch, t) ==
    IF batch = <<>> THEN st
    ELSE SyncLoop(SyncOne(st, Head(batch), t), Tail(batch), t)

\* SyncReturn with total counting the records that reached a counter
SyncReturn_TotalProcessed(st, total) ==
    [events |-> st.events, nextId |-> st.nextId, writes |-> st.writes,
     failed |-> st.failed,
     result |-> [created |-> st.counts.created,
                 updated |-> st.counts.updated,
                 skipped |-> st.counts.skipped,
                 total   |-> st.counts.created + st.counts.updated + st.counts.skipped]]

\* What sync_events_to_db leaves and returns once the loop has ended in st:
\* the store, the writes issued and the counts dict
SyncReturn(st, total) ==
    [events |-> st.events, nextId |-> st.nextId, writes |-> st.writes,
     failed |-> st.failed,
     result |-> [created |-> st.counts.created,
                 updated |-> st.counts.updated,
                 skipped |-> st.counts.skipped,
                 total   |-> total]]

\* sync_events_to_db(db, events)
SyncEventsToDb(coll, id, batch, t) ==
    SyncReturn(SyncLoop([events |-> coll, nextId |-> id,
                         counts |-> NoCounts, writes |-> <<>>, failed |-> 0], batch, t),
               Len(batch))

\* ---------------------------------------------------------------- status updater
\* The filter of update_event_status. The dict literal
\* {"$ne": None, "$ne": ""} keeps only its last key: {"$ne": ""}.
Rule1Matches(doc) == doc.status = "upcoming" /\ doc.actual # ""

\* The filter of update_event_status_by_time; the operand of $lt is
\* now.isoformat(), a string
Rule2Matches(doc, t) ==
    /\ doc.status = "upcoming"
    /\ BsonLt(doc.event_time_utc, IsoFormat(t))
    /\ doc.actual \in {NULL, ""}

\* update_many(filter, {"$set": {"status": "released", "updated_at": t}})
Release(doc, t) == ApplySet(doc, [status |-> "released", updated_at |-> t])

\* UpdateEventStatus that deletes the events its filter matches
UpdateEventStatus_DeletesMatched(coll, t) ==
    SelectSeq(coll, LAMBDA d : ~Rule1Matches(d))

UpdateEventStatus(coll, t) ==
    [i \in 1..Len(coll) |-> IF Rule1Matches(coll[i]) THEN Release(coll[i], t) ELSE coll[i]]

UpdateEventStatusByTime(coll, t) ==
    [i \in 1..Len(coll) |-> IF Rule2Matches(coll[i], t) THEN Release(coll[i], t) ELSE coll[i]]

\* ---------------------------------------------------------------- query service
\* calculate_next_high_impact: find_one with sort event_time_utc ascending;
\* among equal times the first in natural order
NextHighMatches(doc, t) ==
    /\ doc.impact_level = "high"
    /\ BsonGte(doc.event_time_utc, BsonDate(t))
    /\ doc.status = "upcoming"

\* CalculateNextHighImpact without the sort: the first match in natural order
CalculateNextHighImpact_Unsorted(coll, t) ==
    LET M == {i \in 1..Len(coll) : NextHighMatches(coll[i], t)} IN
    IF M = {} THEN <<>> ELSE <<coll[Min(M)]>>

CalculateNextHighImpact(coll, t) ==
    LET M == {i \in 1..Len(coll) : NextHighMatches(coll[i], t)} IN
    IF M = {} THEN <<>>
    ELSE LET best == CHOOSE i \in M : \A j \in M :
                        \/ coll[i].event_time_utc[2] < coll[j].event_time_utc[2]
                        \/ (coll[i].event_time_utc[2] = coll[j].event_time_utc[2] /\ i <= j)
         IN <<coll[best]>>

\* ---------------------------------------------------------------- adapters
\* Sequences over S of length 0..n
RECURSIVE SeqsUpTo(_, _)
SeqsUpTo(S, n) ==
    IF n = 0 THEN {<<>>}
    ELSE LET shorter == SeqsUpTo(S, n - 1) IN
         shorter \cup {Append(q, x) : q \in {r \in shorter : Len(r) = n - 1}, x \in S}

\* str(v) if v is not None else ""
CleanValue(v) == IF v = NULL THEN "" ELSE v

\* impact = item.get("impact").lower(); anything else than the three levels is low
FinnhubImpact(v) == IF v \in {"low", "medium", "high"} THEN v ELSE "low"

\* One element of the economicCalendar array of the REST response
FinnhubItems ==
    [ key : FinnhubIds, impact : {"high", "holiday"}, actual : {NULL, "0.4%"},
      forecast : {NULL}, previous : {"0.2%"} ]

\* FinnhubEvent that leaves every event 'upcoming' for the status updater
FinnhubEvent_AlwaysUpcoming(item, t) ==
    FetchedEvent(item.key, FinnhubImpact(item.impact), CleanValue(item.actual),
                 CleanValue(item.forecast), CleanValue(item.previous), "upcoming", t)

\* The dict fetch_finnhub_events builds from one item
FinnhubEvent(item, t) ==
    FetchedEvent(item.key, FinnhubImpact(item.impact), CleanValue(item.actual),
                 CleanValue(item.forecast), CleanValue(item.previous),
                 IF CleanValue(item.actual) # "" THEN "released" ELSE "upcoming", t)

\* The economicCalendar arrays the REST endpoint may answer with; a failed
\* request, a 403 and an empty array all make fetch_finnhub_events return []
FinnhubResponses == SeqsUpTo(FinnhubItems, MaxBatch)

FetchFinnhubEvents(response, t) ==
    [i \in 1..Len(response) |-> FinnhubEvent(response[i], t)]

\* One <event> node of the XML feed (the feed has no actual)
FairItems ==
    [ key : FairIds, impact : {"High", "Low"}, forecast : {"0.3%"},
      previous : {"0.2%"} ]

\* str.lower() on the impact texts of the feed
Lower(v) == IF v = "High" THEN "high" ELSE IF v = "Low" THEN "low" ELSE v

\* The dict fetch_fair_economy_events builds from one node
FairEvent(item, t) ==
    FetchedEvent(item.key, Lower(item.impact), "",
                 CleanValue(item.forecast), CleanValue(item.previous),
                 IF EventTimeOf(item.key) > t THEN "upcoming" ELSE "released", t)

\* The <event> lists the feed may hold; a failed request gives []
FairResponses == SeqsUpTo(FairItems, MaxBatch)

FetchFairEconomyEvents(response, t) ==
    [i \in 1..Len(response) |-> FairEvent(response[i], t)]

\* (actual, status) as the adapters set them: the scraper gives None and
\* 'upcoming' for an empty cell (forex_factory_scraper.py:185,198), Finnhub ""
\* and 'upcoming' for a missing value, both 'released' with a value
AdapterPairs == {<<NULL, "upcoming">>, <<"", "upcoming">>, <<"0.4%", "released">>}

\* The event dicts handed to sync_events_to_db by a direct caller, before the
\* fetch time is stamped on them
AnyEvents ==
    {FetchedEvent(u, "high", as[1], "0.3%", "0.2%", as[2], 0) :
        u \in UniqueIds, as \in AdapterPairs}

\* An event dict that lost its unique_id key on the way to the sync
MalformedEvents ==
    {[f \in DOMAIN e \ {"unique_id"} |-> e[f]] :
        e \in {FetchedEvent("fh_1", "high", "0.4%", "0.3%", "0.2%", "released", 0)}}

AnyBatches == SeqsUpTo(AnyEvents \cup MalformedEvents, MaxBatch)

FetchedAt(batch, t) == [i \in 1..Len(batch) |-> [batch[i] EXCEPT !.fetched_at = t]]

\* ---------------------------------------------------------------- pipeline
\* The end of a cycle that synced `fetched` with outcome r: the time-based
\* status update runs on the synced store, the counts are logged, and the
\* function ends without a return statement (returned: <<>> for None)
CycleEnd(r, adapters, fetched, t) ==
    [events |-> UpdateEventStatusByTime(r.events, t), nextId |-> r.nextId,
     adapters |-> adapters, synced |-> fetched, writes |-> r.writes,
     result |-> <<r.result>>, returned |-> <<>>]

\* AutoUpdateCalendar with the adapters tried in the other order
AutoUpdateCalendar_FairFirst(coll, id, fh, fe, t) ==
    LET first    == FetchFairEconomyEvents(fe, t)
        fetched  == IF first # <<>> THEN first ELSE FetchFinnhubEvents(fh, t)
        adapters == IF first # <<>> THEN <<"fair_economy">>
                    ELSE <<"fair_economy", "finnhub">>
    IN IF fetched = <<>>
       THEN [events |-> coll, nextId |-> id, adapters |-> adapters,
             synced |-> <<>>, writes |-> <<>>, result |-> <<>>, returned |-> <<>>]
       ELSE CycleEnd(SyncEventsToDb(coll, id, fetched, t), adapters, fetched, t)

\* AutoUpdateCalendar that replaces the collection by what was fetched, also
\* when nothing was
AutoUpdateCalendar_ReplacesStore(coll, id, fh, fe, t) ==
    LET first    == FetchFinnhubEvents(fh, t)
        fetched  == IF first # <<>> THEN first ELSE FetchFairEconomyEvents(fe, t)
        adapters == IF first # <<>> THEN <<"finnhub">>
                    ELSE <<"finnhub", "fair_economy">>
    IN CycleEnd(SyncEventsToDb(<<>>, id, fetched, t), adapters, fetched, t)

\* auto_update_calendar, given what the two upstreams would answer.
\* adapters: the adapters invoked, in order; synced: the list handed to
\* sync_events_to_db (<<>> when the cycle returned before syncing)
AutoUpdateCalendar(coll, id, fh, fe, t) ==
    LET first    == FetchFinnhubEvents(fh, t)
        fetched  == IF first # <<>> THEN first ELSE FetchFairEconomyEvents(fe, t)
        adapters == IF first # <<>> THEN <<"finnhub">>
                    ELSE <<"finnhub", "fair_economy">>
    IN IF fetched = <<>>
       THEN [events |-> coll, nextId |-> id, adapters |-> adapters,
             synced |-> <<>>, writes |-> <<>>, result |-> <<>>, returned |-> <<>>]
       ELSE CycleEnd(SyncEventsToDb(coll, id, fetched, t), adapters, fetched, t)

\* ---------------------------------------------------------------- operations
\* The processes that may run a cycle at the same time against one database:
\* the scheduler's job and a /cron/sync request served by another worker
Procs == {"scheduler", "cron"}

Idle == [pc |-> "idle", batch |-> <<>>, k |-> 0, existing |-> <<>>, had |-> {}]

NoCall == [op |-> "none", adapters |-> <<>>, synced |-> FALSE, answer |-> <<>>,
           returned |-> <<>>, upstream |-> <<>>, raised |-> FALSE, user |-> "none",
           args |-> <<>>, outage |-> <<>>]

\* The scheduler before economic_calendar_service is imported: HAS_SCHEDULER
\* is not yet decided, the service's scheduler_started is False, the job store
\* is empty and no shutdown is waiting on the event loop
NotImported ==
    [has_scheduler |-> "undecided", scheduler_started |-> FALSE, running |-> FALSE,
     jobs |-> <<>>, pending_jobs |-> <<>>, shutdowns |-> 0]

\* The tasks that may call the scraper singleton at the same time
Callers == {"task_1", "task_2"}

NoScrape == [pc |-> "idle", wake |-> 0]

Init ==
    /\ events = <<>>
    /\ nextId = 1
    /\ now = 0
    /\ last = NoCall
    /\ procs = [p \in Procs |-> Idle]
    /\ marks = <<>>
    /\ notes = <<>>
    /\ links = <<>>
    /\ reminders = <<>>
    /\ flagged = [u \in Users |-> [e \in EventIds |-> "never"]]
    /\ clock = RATE_LIMIT_SECONDS
    /\ last_request_time = 0
    /\ calls = [c \in Callers |-> NoScrape]
    /\ issued = [latest |-> 0, gap |-> RATE_LIMIT_SECONDS]
    /\ sched = NotImported

\* time passes
Tick ==
    /\ now < MaxTime
    /\ now' = now + 1
    /\ last' = NoCall
    /\ UNCHANGED <<events, nextId, procs, annotations, sched, limiter>>

\* a direct call of sync_events_to_db (run_scraper.py:34)
sync_events_to_db ==
    \E b \in AnyBatches :
        \E r \in {SyncEventsToDb(events, nextId, FetchedAt(b, now), now)} :
        /\ events' = r.events
        /\ nextId' = r.nextId
        /\ UNCHANGED <<now, last, procs, annotations, sched, limiter>>

update_event_status ==
    /\ events' = UpdateEventStatus(events, now)
    /\ UNCHANGED <<nextId, now, last, procs, annotations, sched, limiter>>

update_event_status_by_time ==
    /\ events' = UpdateEventStatusByTime(events, now)
    /\ UNCHANGED <<nextId, now, last, procs, annotations, sched, limiter>>

\* one cycle, scheduled (start_scheduler) or manual (/cron/sync)
Cycle(fh, fe) ==
    \E r \in {AutoUpdateCalendar(events, nextId, fh, fe, now)} :
    /\ events' = r.events
    /\ nextId' = r.nextId
    /\ last' = [NoCall EXCEPT !.op = "auto_update_calendar",
                   !.adapters = r.adapters, !.synced = (r.synced # <<>>),
                   !.returned = r.returned]
    /\ UNCHANGED <<now, procs, annotations, sched, limiter>>

auto_update_calendar ==
    \E fh \in FinnhubResponses :
        IF fh # <<>>
        THEN Cycle(fh, <<>>)
        ELSE \E fe \in FairResponses : Cycle(fh, fe)

calculate_next_high_impact ==
    /\ last' = [NoCall EXCEPT !.op = "calculate_next_high_impact",
                   !.answer = CalculateNextHighImpact(events, now)]
    /\ UNCHANGED <<events, nextId, now, procs, annotations, sched, limiter>>

\* The sync engine and the status updater called directly
Next ==
    \/ Tick
    \/ sync_events_to_db
    \/ update_event_status
    \/ update_event_status_by_time

Spec == Init /\ [][Next]_vars

\* The pipeline: scheduled or manual cycles, and the countdown lookup
NextPipeline ==
    \/ Tick
    \/ auto_update_calendar
    \/ calculate_next_high_impact

SpecPipeline == Init /\ [][NextPipeline]_vars

\* The pipeline while time passes
SpecLive == Init /\ [][NextPipeline]_vars /\ WF_vars(Tick)

\* ---------------------------------------------------------------- overlapping cycles
\* A cycle of another process interleaves with this one between any two
\* database calls. Each process fetches, then per record calls find_one and
\* then insert_one / update_one, then runs the time rule.
ConcurrentFetches ==
    {FetchFinnhubEvents(q, 0) :
        q \in SeqsUpTo({i \in FinnhubItems : i.impact = "high"},
                       MaxBatch)}
    \cup {FetchFairEconomyEvents(q, 0) :
        q \in SeqsUpTo({i \in FairItems : i.impact = "High" /\ i.forecast = NULL},
                       MaxBatch)}

\* the fetch of auto_update_calendar has returned `fetched`
cycle_fetch(p) ==
    /\ procs[p].pc = "idle"
    /\ \E fetched \in ConcurrentFetches :
          procs' = [procs EXCEPT ![p] =
                      IF fetched = <<>>
                      THEN [Idle EXCEPT !.pc = "done"]
                      ELSE [pc |-> "find", batch |-> fetched, k |-> 1,
                            existing |-> <<>>,
                            had |-> {d.unique_id : d \in {events[i] : i \in 1..Len(events)}}]]
    /\ UNCHANGED <<events, nextId, now, last, annotations, sched, limiter>>

\* existing = db.economic_events.find_one({"unique_id": event["unique_id"]})
cycle_find(p) ==
    /\ procs[p].pc = "find"
    /\ procs' = [procs EXCEPT ![p].pc = "write",
                              ![p].existing =
                                 Existing(events, procs[p].batch[procs[p].k].unique_id)]
    /\ UNCHANGED <<events, nextId, now, last, annotations, sched, limiter>>

\* the insert_one / update_one / skip that follows
cycle_write(p) ==
    /\ procs[p].pc = "write"
    /\ LET st == SyncWrite([events |-> events, nextId |-> nextId,
                            counts |-> NoCounts, writes |-> <<>>, failed |-> 0],
                           procs[p].batch[procs[p].k], procs[p].existing, now)
       IN /\ events' = st.events
          /\ nextId' = st.nextId
    /\ procs' = [procs EXCEPT
                   ![p].pc = IF procs[p].k < Len(procs[p].batch) THEN "find" ELSE "status",
                   ![p].k = IF procs[p].k < Len(procs[p].batch) THEN @ + 1 ELSE @,
                   ![p].existing = <<>>]
    /\ UNCHANGED <<now, last, annotations, sched, limiter>>

\* await self.update_event_status_by_time(db)
cycle_status(p) ==
    /\ procs[p].pc = "status"
    /\ events' = UpdateEventStatusByTime(events, now)
    /\ procs' = [procs EXCEPT ![p].pc = "done"]
    /\ UNCHANGED <<nextId, now, last, annotations, sched, limiter>>

NextConcurrent ==
    \E p \in Procs :
        \/ cycle_fetch(p)
        \/ cycle_find(p)
        \/ cycle_write(p)
        \/ cycle_status(p)

SpecConcurrent == Init /\ [][NextConcurrent]_vars

\* ---------------------------------------------------------------- filtered query
BsonLte(a, b) == a[1] = b[1] /\ a[2] <= b[2]

\* The words of an event name in lower case: what a case-insensitive
\* $regex for one word is matched against
WordsOf(name) ==
    IF name = "CPI (MoM)" THEN {"cpi", "(mom)"}
    ELSE IF name = "Core CPI" THEN {"core", "cpi"}
    ELSE {}

LowerWord(q) == IF q = "CPI" THEN "cpi" ELSE IF q = "Core" THEN "core" ELSE q

\* No filter supplied. Dates are <<>> (None) or <<day>>; the lists are sets,
\* {} standing for None and for []; the strings are NULL when not given
NoFilters ==
    [start_date |-> <<>>, end_date |-> <<>>, currencies |-> {}, impacts |-> {},
     high_impact_only |-> FALSE, search_query |-> NULL, status |-> NULL]

\* QueryMatches in which a supplied impacts list wins over high_impact_only
QueryMatches_ImpactsFirst(doc, f) ==
    /\ f.start_date # <<>> => BsonGte(doc.event_date, BsonDate(f.start_date[1]))
    /\ f.end_date # <<>> => BsonLte(doc.event_date, BsonDate(f.end_date[1]))
    /\ f.currencies # {} => doc.currency \in f.currencies
    /\ IF f.impacts # {} THEN doc.impact_level \in f.impacts
       ELSE f.high_impact_only => doc.impact_level = "high"
    /\ f.search_query # NULL => LowerWord(f.search_query) \in WordsOf(doc.event_name)
    /\ f.status # NULL => doc.status = f.status

\* The query dict get_events_with_filters builds, applied to one document
QueryMatches(doc, f) ==
    /\ f.start_date # <<>> => BsonGte(doc.event_date, BsonDate(f.start_date[1]))
    /\ f.end_date # <<>> => BsonLte(doc.event_date, BsonDate(f.end_date[1]))
    /\ f.currencies # {} => doc.currency \in f.currencies
    /\ IF f.high_impact_only THEN doc.impact_level = "high"
       ELSE f.impacts # {} => doc.impact_level \in f.impacts
    /\ f.search_query # NULL => LowerWord(f.search_query) \in WordsOf(doc.event_name)
    /\ f.status # NULL => doc.status = f.status

\* find(query) in natural order
RECURSIVE Find(_, _)
Find(coll, f) ==
    IF coll = <<>> THEN <<>>
    ELSE IF QueryMatches(Head(coll), f) THEN <<Head(coll)>> \o Find(Tail(coll), f)
    ELSE Find(Tail(coll), f)

\* d put into a list sorted by event_time_utc, after the documents that are
\* not later than it
RECURSIVE InsertByTime(_, _)
InsertByTime(d, sorted) ==
    IF sorted = <<>> THEN <<d>>
    ELSE IF Head(sorted).event_time_utc[2] <= d.event_time_utc[2]
         THEN <<Head(sorted)>> \o InsertByTime(d, Tail(sorted))
         ELSE <<d>> \o sorted

\* .sort("event_time_utc", 1)
RECURSIVE SortByTime(_)
SortByTime(docs) ==
    IF docs = <<>> THEN <<>>
    ELSE InsertByTime(docs[Len(docs)], SortByTime(SubSeq(docs, 1, Len(docs) - 1)))

\* The positions in an annotation collection of the documents of one user
\* on one event id
Of(coll, user, eid) ==
    {i \in 1..Len(coll) : coll[i].user_id = user /\ coll[i].event_id = eid}

\* Enrich that reads the mark of any user on the event
Enrich_AnyUser(doc, M, N, L, user) ==
    [f \in DOMAIN doc \cup {"is_marked", "notes_count", "linked_trades_count"} |->
        IF f = "_id" THEN StrOfId(doc._id)
        ELSE IF f = "is_marked"
             THEN \E i \in 1..Len(M) :
                      M[i].event_id = StrOfId(doc._id) /\ M[i].is_marked
        ELSE IF f = "notes_count" THEN Cardinality(Of(N, user, StrOfId(doc._id)))
        ELSE IF f = "linked_trades_count" THEN Cardinality(Of(L, user, StrOfId(doc._id)))
        ELSE doc[f]]

\* The per-user fields added to one event: _id becomes its string, is_marked
\* comes from the first mark found, the two counts from count_documents
Enrich(doc, M, N, L, user) ==
    [f \in DOMAIN doc \cup {"is_marked", "notes_count", "linked_trades_count"} |->
        IF f = "_id" THEN StrOfId(doc._id)
        ELSE IF f = "is_marked"
             THEN (IF Of(M, user, StrOfId(doc._id)) = {} THEN FALSE
                   ELSE M[Min(Of(M, user, StrOfId(doc._id)))].is_marked)
        ELSE IF f = "notes_count" THEN Cardinality(Of(N, user, StrOfId(doc._id)))
        ELSE IF f = "linked_trades_count" THEN Cardinality(Of(L, user, StrOfId(doc._id)))
        ELSE doc[f]]

EnrichAll(docs, M, N, L, user) ==
    [i \in 1..Len(docs) |-> Enrich(docs[i], M, N, L, user)]

\* get_events_with_filters(db, user_id, ...)
GetEventsWithFilters(coll, M, N, L, user, f) ==
    EnrichAll(SortByTime(Find(coll, f)), M, N, L, user)

\* The filter combinations a request may carry
DateRanges == {<<<<>>, <<>>>>, <<<<0>>, <<>>>>, <<<<2>>, <<>>>>, <<<<>>, <<0>>>>, <<<<0>>, <<2>>>>}

Filters ==
    {[start_date |-> dr[1], end_date |-> dr[2], currencies |-> cs, impacts |-> is,
      high_impact_only |-> h, search_query |-> q, status |-> st] :
        dr \in DateRanges, cs \in {{}, {"USD"}, {"USD", "GBP"}},
        is \in {{}, {"high"}, {"low", "medium"}}, h \in BOOLEAN,
        q \in {NULL, "Core"}, st \in {NULL, "upcoming"}}

\* ---------------------------------------------------------------- adapter calls
\* What an upstream may do to one request: the request fails on the network,
\* the answer has status 403 or 500, the payload cannot be parsed, or the
\* payload is read (an empty body is the empty payload)
HttpFailures == {"network_error", "http_403", "http_500", "unparseable"}

Upstreams(bodies) ==
    {[kind |-> k, body |-> <<>>] : k \in HttpFailures}
    \cup {[kind |-> "ok", body |-> b] : b \in bodies}

\* How a block of statements ends: with a value, or with an exception
Returned(v) == [raised |-> FALSE, value |-> v]
Raised == [raised |-> TRUE, value |-> <<>>]

\* ExceptReturnEmpty that lets the exception through
ExceptReturnEmpty_Reraise(o) == o

\* except Exception as e: logger.error(...); return []
ExceptReturnEmpty(o) == IF o.raised THEN Returned(<<>>) ELSE o

\* The try block of fetch_finnhub_events: requests.get raises on a network
\* error, a 403 returns [], raise_for_status raises on any other error
\* status, response.json() raises on a payload that is not JSON
FinnhubTry(up, t) ==
    IF up.kind = "network_error" THEN Raised
    ELSE IF up.kind = "http_403" THEN Returned(<<>>)
    ELSE IF up.kind = "http_500" THEN Raised
    ELSE IF up.kind = "unparseable" THEN Raised
    ELSE Returned(FetchFinnhubEvents(up.body, t))

FinnhubRequest(up, t) == ExceptReturnEmpty(FinnhubTry(up, t))

\* The try block of fetch_fair_economy_events: requests.get, raise_for_status
\* (403 included) and ET.fromstring raise
FairTry(up, t) ==
    IF up.kind \in HttpFailures THEN Raised
    ELSE Returned(FetchFairEconomyEvents(up.body, t))

FairRequest(up, t) == ExceptReturnEmpty(FairTry(up, t))

\* The scraper's own unique_ids (_create_unique_id)
ScraperIds == {"sc_1", "sc_2"}

\* The calendar rows of one page with a time cell
ScrapedRows == [ key : ScraperIds, actual : {""}, forecast : {"0.3%"}, previous : {"0.2%"} ]

ScrapedPages == SeqsUpTo(ScrapedRows, MaxBatch)

\* value if value else None
NoneIfEmpty(v) == IF v = "" THEN NULL ELSE v

\* The dict _parse_event_row builds from one row
ScraperEvent(row, t) ==
    FetchedEvent(row.key, "high", NoneIfEmpty(row.actual), NoneIfEmpty(row.forecast),
                 NoneIfEmpty(row.previous),
                 IF row.actual # "" THEN "released" ELSE "upcoming", t)

ParseCalendarHtml(page, t) == [i \in 1..Len(page) |-> ScraperEvent(page[i], t)]

\* _fallback_scrape: requests + BeautifulSoup inside one try
FallbackTry(up, t) ==
    IF up.kind \in HttpFailures THEN Raised
    ELSE Returned(ParseCalendarHtml(up.body, t))

FallbackScrape(up, t) == ExceptReturnEmpty(FallbackTry(up, t))

\* What the Playwright attempt may meet: the package is not installed, or
\* the page load fails, or the page is read
PlaywrightOutcomes ==
    {[kind |-> "no_playwright", body |-> <<>>]} \cup Upstreams(ScrapedPages)

\* Is the fallback reached?
FallsBack(pw) == pw.kind # "ok"

\* scrape_calendar_page after its rate limit: the ImportError branch returns
\* the fallback's result, any other exception is caught and the fallback's
\* result is returned
ScrapeCalendarPage(pw, fb, t) ==
    IF pw.kind = "no_playwright" THEN FallbackScrape(fb, t)
    ELSE IF pw.kind \in HttpFailures THEN Returned(FallbackScrape(fb, t).value)
    ELSE Returned(ParseCalendarHtml(pw.body, t))

\* _rate_limit run by one caller alone: it sleeps out the remainder of the
\* cooldown, then stamps last_request_time
RateLimit(lrt, clk) ==
    IF clk - lrt < RATE_LIMIT_SECONDS THEN lrt + RATE_LIMIT_SECONDS ELSE clk

\* The clock advances in steps of a third of the cooldown
ClockStep == RATE_LIMIT_SECONDS \div 3

MaxClock == RATE_LIMIT_SECONDS + MaxTicks * ClockStep

\* The history of upstream requests after one more at time at
Issue(h, at) ==
    [latest |-> at,
     gap |-> IF at - h.latest < h.gap THEN at - h.latest ELSE h.gap]

fetch_finnhub_events ==
    \E up \in Upstreams(FinnhubResponses) :
    \E o \in {FinnhubRequest(up, now)} :
        /\ last' = [NoCall EXCEPT !.op = "fetch_finnhub_events", !.upstream = <<up.kind>>,
                       !.raised = o.raised, !.answer = o.value]
        /\ UNCHANGED <<events, nextId, now, procs, annotations, sched, limiter>>

fetch_fair_economy_events ==
    \E up \in Upstreams(FairResponses) :
    \E o \in {FairRequest(up, now)} :
        /\ last' = [NoCall EXCEPT !.op = "fetch_fair_economy_events",
                       !.upstream = <<up.kind>>,
                       !.raised = o.raised, !.answer = o.value]
        /\ UNCHANGED <<events, nextId, now, procs, annotations, sched, limiter>>

\* one call of scrape_calendar_page with no other call in flight
scrape_calendar_page ==
    \E pw \in PlaywrightOutcomes, fb \in Upstreams(ScrapedPages) :
    \E o \in {ScrapeCalendarPage(pw, fb, now)} :
    \E t1 \in {RateLimit(last_request_time, clock)} :
    \E t2 \in {IF FallsBack(pw) THEN RateLimit(t1, t1) ELSE t1} :
        /\ t2 <= MaxClock
        /\ clock' = t2
        /\ last_request_time' = t2
        /\ issued' = IF pw.kind = "no_playwright" THEN Issue(issued, t2)
                      ELSE IF FallsBack(pw) THEN Issue(Issue(issued, t1), t2)
                      ELSE Issue(issued, t1)
        /\ last' = [NoCall EXCEPT !.op = "scrape_calendar_page",
                       !.upstream = IF FallsBack(pw) THEN <<pw.kind, fb.kind>>
                                    ELSE <<pw.kind>>,
                       !.raised = o.raised, !.answer = o.value]
        /\ UNCHANGED <<events, nextId, now, procs, annotations, sched, calls>>

\* The three source adapters called one at a time
NextAdapters ==
    \/ Tick
    \/ fetch_finnhub_events
    \/ fetch_fair_economy_events
    \/ scrape_calendar_page

SpecAdapters == Init /\ [][NextAdapters]_vars

\* ---------------------------------------------------------------- overlapping scraper calls
\* Calls of the singleton's scrape_calendar_page run as tasks of one event
\* loop: a task runs from one await to the next, and asyncio.sleep inside
\* _rate_limit lets the other tasks run. stage 1 is the _rate_limit of
\* scrape_calendar_page, stage 2 the one of _fallback_scrape.

\* The line after the sleep: last_request_time = time.time(); then the
\* caller's request goes out, or (stage 1, Playwright not installed) the
\* fallback starts and its own _rate_limit finds that no time has passed
PassLimit(c, stage) ==
    /\ last_request_time' = clock
    /\ \/ /\ issued' = Issue(issued, clock)
          /\ calls' = [calls EXCEPT ![c] =
                         [pc |-> IF stage = 1 THEN "page" ELSE "get", wake |-> 0]]
       \/ /\ stage = 1
          /\ issued' = issued
          /\ calls' = [calls EXCEPT ![c] =
                         [pc |-> "sleep_2", wake |-> clock + RATE_LIMIT_SECONDS]]

\* _rate_limit up to its await
EnterLimit(c, stage) ==
    IF clock - last_request_time < RATE_LIMIT_SECONDS
    THEN /\ calls' = [calls EXCEPT ![c] =
                        [pc |-> IF stage = 1 THEN "sleep_1" ELSE "sleep_2",
                         wake |-> clock + (RATE_LIMIT_SECONDS - (clock - last_request_time))]]
         /\ UNCHANGED <<last_request_time, issued>>
    ELSE PassLimit(c, stage)

\* a task calls scrape_calendar_page
scrape_begin(c) ==
    /\ calls[c].pc = "idle"
    /\ EnterLimit(c, 1)
    /\ UNCHANGED <<events, nextId, now, last, procs, annotations, sched, clock>>

\* asyncio.sleep(sleep_time) is over
scrape_wake(c) ==
    /\ calls[c].pc \in {"sleep_1", "sleep_2"}
    /\ clock >= calls[c].wake
    /\ PassLimit(c, IF calls[c].pc = "sleep_1" THEN 1 ELSE 2)
    /\ UNCHANGED <<events, nextId, now, last, procs, annotations, sched, clock>>

\* the Playwright page load ends: with the page, or with an exception that
\* sends the call to _fallback_scrape
scrape_page_done(c) ==
    /\ calls[c].pc = "page"
    /\ \/ /\ calls' = [calls EXCEPT ![c] = NoScrape]
          /\ UNCHANGED <<last_request_time, issued>>
       \/ EnterLimit(c, 2)
    /\ UNCHANGED <<events, nextId, now, last, procs, annotations, sched, clock>>

\* session.get of the fallback ends
scrape_get_done(c) ==
    /\ calls[c].pc = "get"
    /\ calls' = [calls EXCEPT ![c] = NoScrape]
    /\ UNCHANGED <<events, nextId, now, last, procs, annotations, sched, clock,
                   last_request_time, issued>>

\* time.time() moves on; a sleep that is over returns before it does
clock_tick ==
    /\ clock + ClockStep <= MaxClock
    /\ \A c \in Callers :
          calls[c].pc \in {"sleep_1", "sleep_2"} => calls[c].wake > clock
    /\ clock' = clock + ClockStep
    /\ UNCHANGED <<events, nextId, now, last, procs, annotations, sched,
                   last_request_time, calls, issued>>

NextScraper ==
    \/ clock_tick
    \/ \E c \in Callers :
          \/ scrape_begin(c)
          \/ scrape_wake(c)
          \/ scrape_page_done(c)
          \/ scrape_get_done(c)

SpecScraper == Init /\ [][NextScraper]_vars

\* ---------------------------------------------------------------- annotations
NoteTexts == {"watch this", "sold early"}
TradeIds == {"T1", "T2"}
MinutesBefore == {0, 1}

\* The first document of an annotation collection matching a filter, 0 for None
FirstOf(S) == IF S = {} THEN 0 ELSE Min(S)

\* update_one(..., {"$set": ..., "$setOnInsert": ...}, upsert=True)
MarkEventImportant(M, user, eid, flag, t) ==
    IF Of(M, user, eid) = {}
    THEN Append(M, [user_id |-> user, event_id |-> eid, is_marked |-> flag,
                    updated_at |-> t, created_at |-> t])
    ELSE [M EXCEPT ![FirstOf(Of(M, user, eid))] =
             [@ EXCEPT !.is_marked = flag, !.updated_at = t]]

\* AddEventNote that inserts a new note on every call
AddEventNote_AlwaysInserts(N, user, eid, text, t) ==
    Append(N, [user_id |-> user, event_id |-> eid, note_text |-> text,
               created_at |-> t, updated_at |-> t])

\* add_event_note: the notes collection after the call (the note found is
\* updated through its _id, that is in place)
AddEventNote(N, user, eid, text, t) ==
    IF Of(N, user, eid) # {}
    THEN [N EXCEPT ![FirstOf(Of(N, user, eid))] =
             [@ EXCEPT !.note_text = text, !.updated_at = t]]
    ELSE Append(N, [user_id |-> user, event_id |-> eid, note_text |-> text,
                    created_at |-> t, updated_at |-> t])

\* The links of one user between one event id and one trade
LinksOf(L, user, eid, trade) ==
    {i \in Of(L, user, eid) : L[i].trade_id = trade}

\* LinkEventToTrade that inserts without looking for an existing link
LinkEventToTrade_AlwaysInserts(L, user, eid, trade, t) ==
    Append(L, [user_id |-> user, event_id |-> eid, trade_id |-> trade,
               created_at |-> t])

\* link_event_to_trade: the links collection after the call
LinkEventToTrade(L, user, eid, trade, t) ==
    IF LinksOf(L, user, eid, trade) # {} THEN L
    ELSE Append(L, [user_id |-> user, event_id |-> eid, trade_id |-> trade,
                    created_at |-> t])

\* find_one({"_id": event_id}) on the events: the stored _id is an ObjectId
FindById(coll, key) == FirstOf({i \in 1..Len(coll) : ObjectId(coll[i]._id) = key})

\* create_reminder: <<>> when it raises ValueError("Event not found"), else
\* <<the reminder inserted>>
CreateReminder(coll, id, user, eid, minutes, t) ==
    IF FindById(coll, eid) = 0 THEN <<>>
    ELSE <<[_id |-> id, user_id |-> user, event_id |-> eid,
            event_time |-> coll[FindById(coll, eid)].event_time_utc,
            minutes_before |-> minutes,
            reminder_time |->
                BsonDate(coll[FindById(coll, eid)].event_time_utc[2] - minutes),
            is_sent |-> FALSE, created_at |-> t]>>

\* run_scraper.py: scrape one page, sync it when it holds any event
run_scraper ==
    \E pg \in ScrapedPages :
    \E r \in {SyncEventsToDb(events, nextId, ParseCalendarHtml(pg, now), now)} :
        /\ events' = (IF pg = <<>> THEN events ELSE r.events)
        /\ nextId' = (IF pg = <<>> THEN nextId ELSE r.nextId)
        /\ last' = [NoCall EXCEPT !.op = "run_scraper"]
        /\ UNCHANGED <<now, procs, annotations, sched, limiter>>

\* The collections stay within the modelled size
WithinQuota(M, N, L) == Len(M) + Len(N) + Len(L) <= MaxAnnotations

mark_event_important ==
    \E u \in Users, e \in EventIds, flag \in BOOLEAN :
        /\ marks' = MarkEventImportant(marks, u, e, flag, now)
        /\ WithinQuota(marks', notes, links)
        /\ flagged' = [flagged EXCEPT ![u][e] = IF flag THEN "true" ELSE "false"]
        /\ last' = [NoCall EXCEPT !.op = "mark_event_important", !.user = u,
                       !.args = <<e, flag>>]
        /\ UNCHANGED <<events, nextId, now, procs, notes, links, reminders, sched, limiter>>

add_event_note ==
    \E u \in Users, e \in EventIds, text \in NoteTexts :
        /\ notes' = AddEventNote(notes, u, e, text, now)
        /\ WithinQuota(marks, notes', links)
        /\ last' = [NoCall EXCEPT !.op = "add_event_note", !.user = u,
                       !.args = <<e, text>>,
                       !.answer = <<notes'[FirstOf(Of(notes', u, e))]>>]
        /\ UNCHANGED <<events, nextId, now, procs, marks, links, reminders, flagged, sched,
                       limiter>>

link_event_to_trade ==
    \E u \in Users, e \in EventIds, trade \in TradeIds :
        /\ links' = LinkEventToTrade(links, u, e, trade, now)
        /\ WithinQuota(marks, notes, links')
        /\ last' = [NoCall EXCEPT !.op = "link_event_to_trade", !.user = u,
                       !.args = <<e, trade>>,
                       !.answer = <<links'[FirstOf(LinksOf(links', u, e, trade))]>>]
        /\ UNCHANGED <<events, nextId, now, procs, marks, notes, reminders, flagged, sched,
                       limiter>>

create_reminder ==
    \E u \in Users, e \in EventIds, m \in MinutesBefore :
    \E made \in {CreateReminder(events, nextId, u, e, m, now)} :
        /\ reminders' = reminders \o made
        /\ nextId' = nextId + Len(made)
        /\ last' = [NoCall EXCEPT !.op = "create_reminder", !.user = u,
                       !.args = <<e, m>>, !.raised = (made = <<>>),
                       !.answer = made]
        /\ UNCHANGED <<events, now, procs, marks, notes, links, flagged, sched, limiter>>

\* delete_one({"_id": ObjectId(reminder_id), "user_id": user_id}): the
\* reminders left
DeleteReminder(R, rid, user) ==
    LET found == FirstOf({i \in 1..Len(R) :
                             ObjectId(R[i]._id) = ObjectId(rid) /\ R[i].user_id = user})
    IN IF found = 0 THEN R
       ELSE [i \in 1..(Len(R) - 1) |-> IF i < found THEN R[i] ELSE R[i + 1]]

\* The reminder ids a client sends
ReminderIds == {1, 2}

delete_reminder ==
    \E u \in Users, rid \in ReminderIds :
        /\ reminders' = DeleteReminder(reminders, rid, u)
        /\ last' = [NoCall EXCEPT !.op = "delete_reminder", !.user = u,
                       !.args = <<rid>>,
                       !.answer = <<Len(reminders) - Len(reminders')>>]
        /\ UNCHANGED <<events, nextId, now, procs, marks, notes, links, flagged, sched,
                       limiter>>

\* get_event_notes: the user's notes on the event (each pair has one creation
\* time per note; the sort by created_at keeps equal times in natural order)
GetEventNotes(N, user, eid) ==
    SelectSeq(N, LAMBDA d : d.user_id = user /\ d.event_id = eid)

\* get_linked_trades: the trade numbers looked up in db.trades
GetLinkedTrades(L, user, eid) ==
    {L[i].trade_id : i \in Of(L, user, eid)}

\* get_user_reminders: the user's reminders not yet sent
GetUserReminders(R, user) ==
    SelectSeq(R, LAMBDA d : d.user_id = user /\ ~d.is_sent)

\* The filters of the modelled GET /events requests
QueriedFilters == {NoFilters, [NoFilters EXCEPT !.status = "upcoming"]}

get_events_with_filters ==
    \E u \in Users, f \in QueriedFilters :
        /\ last' = [NoCall EXCEPT !.op = "get_events_with_filters", !.user = u,
                       !.answer = GetEventsWithFilters(events, marks, notes, links, u, f)]
        /\ UNCHANGED <<events, nextId, now, procs, annotations, sched, limiter>>

get_event_notes ==
    \E u \in Users, e \in EventIds :
        /\ last' = [NoCall EXCEPT !.op = "get_event_notes", !.user = u,
                       !.args = <<e>>, !.answer = GetEventNotes(notes, u, e)]
        /\ UNCHANGED <<events, nextId, now, procs, annotations, sched, limiter>>

get_linked_trades ==
    \E u \in Users, e \in EventIds :
        /\ last' = [NoCall EXCEPT !.op = "get_linked_trades", !.user = u,
                       !.args = <<e>>, !.answer = <<GetLinkedTrades(links, u, e)>>]
        /\ UNCHANGED <<events, nextId, now, procs, annotations, sched, limiter>>

get_user_reminders ==
    \E u \in Users :
        /\ last' = [NoCall EXCEPT !.op = "get_user_reminders", !.user = u,
                       !.answer = GetUserReminders(reminders, u)]
        /\ UNCHANGED <<events, nextId, now, procs, annotations, sched, limiter>>

\* Marks, notes and trade links on the scraped events
NextAnnotations ==
    \/ run_scraper
    \/ mark_event_important
    \/ add_event_note
    \/ link_event_to_trade

SpecAnnotations == Init /\ [][NextAnnotations]_vars

\* Notes written over time
NextNotes ==
    \/ Tick
    \/ add_event_note

SpecNotes == Init /\ [][NextNotes]_vars

\* Trade links made over time
NextLinks ==
    \/ Tick
    \/ link_event_to_trade

SpecLinks == Init /\ [][NextLinks]_vars

\* Reminders on the scraped events
NextReminders ==
    \/ Tick
    \/ run_scraper
    \/ create_reminder

SpecReminders == Init /\ [][NextReminders]_vars

\* The calls of one user about one event
OneUser == last'.user = "u1"
OneEvent == last'.user = "u1" /\ last'.args[1] = StrOfId(1)

\* Every writer of the events next to every annotation operation and query
NextFrame ==
    \/ run_scraper
    \/ update_event_status
    \/ update_event_status_by_time
    \/ mark_event_important /\ OneEvent
    \/ add_event_note /\ OneEvent
    \/ link_event_to_trade /\ OneEvent
    \/ create_reminder /\ OneEvent
    \/ delete_reminder /\ OneUser
    \/ get_events_with_filters /\ OneUser
    \/ get_event_notes /\ OneEvent
    \/ get_linked_trades /\ OneEvent
    \/ get_user_reminders /\ OneUser
    \/ calculate_next_high_impact

SpecFrame == Init /\ [][NextFrame]_vars

\* ---------------------------------------------------------------- overlapping requests
\* Two requests in flight, one per process of Procs; they interleave at the
\* database calls. add_event_note and link_event_to_trade each call find_one
\* and then update_one / insert_one or return.
RequestedCalls ==
    {[op |-> "add_event_note", user_id |-> "u1", event_id |-> StrOfId(1),
      note_text |-> text, trade_id |-> ""] : text \in NoteTexts}
    \cup {[op |-> "link_event_to_trade", user_id |-> "u1", event_id |-> StrOfId(1),
            note_text |-> "", trade_id |-> trade] : trade \in TradeIds}

\* the route has called the crud function with these arguments
request_call(p) ==
    /\ procs[p].pc \in {"idle", "done"}
    /\ \E call \in RequestedCalls :
          procs' = [procs EXCEPT ![p] = [Idle EXCEPT !.pc = "find", !.batch = <<call>>]]
    /\ UNCHANGED <<events, nextId, now, last, annotations, sched, limiter>>

\* existing_note = db.event_notes.find_one({user_id, event_id})
\* existing_link = db.event_trade_links.find_one({user_id, event_id, trade_id})
request_find(p) ==
    /\ procs[p].pc = "find"
    /\ \E call \in {procs[p].batch[1]} :
       \E found \in {IF call.op = "add_event_note"
                      THEN FirstOf(Of(notes, call.user_id, call.event_id))
                      ELSE FirstOf(LinksOf(links, call.user_id, call.event_id,
                                           call.trade_id))} :
          procs' = [procs EXCEPT ![p].pc = "write", ![p].k = found]
    /\ UNCHANGED <<events, nextId, now, last, annotations, sched, limiter>>

\* update_one({"_id": existing_note["_id"]}, ...) when a note was found,
\* nothing when a link was found, insert_one otherwise
request_write(p) ==
    /\ procs[p].pc = "write"
    /\ \E call \in {procs[p].batch[1]}, found \in {procs[p].k} :
          /\ notes' = (IF call.op # "add_event_note" THEN notes
                       ELSE IF found # 0
                       THEN [notes EXCEPT ![found] =
                               [@ EXCEPT !.note_text = call.note_text, !.updated_at = now]]
                       ELSE AddEventNote_AlwaysInserts(notes, call.user_id, call.event_id,
                                                       call.note_text, now))
          /\ links' = (IF call.op # "link_event_to_trade" \/ found # 0 THEN links
                       ELSE LinkEventToTrade_AlwaysInserts(links, call.user_id,
                                                           call.event_id, call.trade_id, now))
    /\ WithinQuota(marks, notes', links')
    /\ procs' = [procs EXCEPT ![p].pc = "done"]
    /\ UNCHANGED <<events, nextId, now, last, marks, reminders, flagged, sched, limiter>>

NextRequests ==
    \E p \in Procs :
        \/ request_call(p)
        \/ request_find(p)
        \/ request_write(p)

SpecRequests == Init /\ [][NextRequests]_vars

\* ---------------------------------------------------------------- GET /events
\* What get_user_by_id answers: <<>> for None, else <<the user document>>
Accounts ==
    {<<>>, <<[user_id |-> "u1"]>>}
    \cup {<<[user_id |-> "u1", subscription_tier |-> v]>> : v \in {"free", "Free", "pro", NULL}}

\* str(v).lower() on the tiers
LowerTier(v) ==
    IF v = NULL THEN "none" ELSE IF v = "Free" THEN "free" ELSE v

\* sub_tier = str(user.get("subscription_tier", "free")).lower() if user else "free"
SubTier(account) ==
    IF account = <<>> THEN "free"
    ELSE IF "subscription_tier" \notin DOMAIN account[1] THEN "free"
    ELSE LowerTier(account[1].subscription_tier)

\* datetime.combine(now.date(), datetime.min.time()) and (..., datetime.max.time()):
\* the first and the last instant of the UTC day; one day is two clock ticks
DayStart(t) == EventDateOf(t)
DayEnd(t) == EventDateOf(t) + 1

\* The filters handed to get_events_with_filters for the free tier
FreeTierFilters(f, t) ==
    [start_date |-> <<DayStart(t)>>, end_date |-> <<DayEnd(t)>>,
     currencies |-> {"USD"},
     impacts |-> IF f.high_impact_only THEN {"high"} ELSE {"high", "medium"},
     high_impact_only |-> FALSE, search_query |-> NULL, status |-> f.status]

\* convert_to_user_timezone: event_time_local is added to the event
ConvertToUserTimezone(event, offset) ==
    [k \in DOMAIN event \cup {"event_time_local"} |->
        IF k = "event_time_local" THEN BsonDate(event.event_time_utc[2] + offset)
        ELSE event[k]]

ConvertAll(found, offset) ==
    IF offset = 0 THEN found
    ELSE [i \in 1..Len(found) |-> ConvertToUserTimezone(found[i], offset)]

\* GetCalendarEvents that keeps the caller's currencies for the free tier
GetCalendarEvents_KeepsCurrencies(coll, M, N, L, user, account, f, offset, t) ==
    ConvertAll(GetEventsWithFilters(coll, M, N, L, user,
                   IF SubTier(account) = "free"
                   THEN [FreeTierFilters(f, t) EXCEPT !.currencies = f.currencies]
                   ELSE f),
               offset)

\* get_calendar_events: the events list of the response
GetCalendarEvents(coll, M, N, L, user, account, f, offset, t) ==
    ConvertAll(GetEventsWithFilters(coll, M, N, L, user,
                   IF SubTier(account) = "free" THEN FreeTierFilters(f, t) ELSE f),
               offset)

\* Fetched events of both currencies, the three impact levels and two days
QueryEvent(uid, currency, impact, time) ==
    [FetchedEvent("fh_1", impact, "", "0.3%", "0.2%", "upcoming", 0) EXCEPT
        !.unique_id = uid, !.currency = currency,
        !.event_date = BsonDate(EventDateOf(time)),
        !.event_time_utc = BsonDate(time)]

QueryEvents ==
    {QueryEvent("q_1", "USD", "high", 0), QueryEvent("q_2", "USD", "medium", 1),
     QueryEvent("q_3", "USD", "low", 0), QueryEvent("q_4", "EUR", "high", 0),
     QueryEvent("q_5", "USD", "high", 2)}

\* The request parameters a caller uses to ask for more than the free tier
BypassAttempts ==
    {[start_date |-> range[1], end_date |-> range[2], currencies |-> currencies,
      impacts |-> impacts, high_impact_only |-> high_impact_only,
      search_query |-> search_query, status |-> status] :
        range \in {<< <<>>, <<>> >>, << <<2>>, <<3>> >>},
        currencies \in {{}, {"EUR"}}, impacts \in {{}, {"low"}},
        high_impact_only \in BOOLEAN, search_query \in {NULL, "CPI"},
        status \in {NULL, "upcoming"}}

TimezoneOffsets == {0, 1}

\* sync_events_to_db called with one fetched event
sync_fetched_event ==
    \E e \in QueryEvents :
    \E r \in {SyncEventsToDb(events, nextId, FetchedAt(<<e>>, now), now)} :
        /\ Len(r.events) <= MaxStored
        /\ events' = r.events
        /\ nextId' = r.nextId
        /\ last' = NoCall
        /\ UNCHANGED <<now, procs, annotations, sched, limiter>>

get_calendar_events ==
    \E account \in Accounts, f \in QueriedFilters, offset \in TimezoneOffsets :
        /\ last' = [NoCall EXCEPT !.op = "get_calendar_events", !.user = "u1",
                       !.args = <<account, f, offset>>,
                       !.answer = GetCalendarEvents(events, marks, notes, links, "u1",
                                                    account, f, offset, now)]
        /\ UNCHANGED <<events, nextId, now, procs, annotations, sched, limiter>>

\* The requests of one caller: no parameters, timezone_offset 1
OneRequest == last'.args[2] = NoFilters /\ last'.args[3] = 1

\* GET /events over a store of fetched events
NextQuery ==
    \/ Tick
    \/ sync_fetched_event
    \/ get_calendar_events /\ OneRequest

SpecQuery == Init /\ [][NextQuery]_vars

\* ---------------------------------------------------------------- scheduler
\* The module-level AsyncIOScheduler (None when the import failed) and the
\* service's scheduler_started flag. jobs is the job store, pending_jobs the
\* jobs added while the scheduler is stopped, shutdowns the shutdown calls
\* handed to the event loop and not yet run.
Done(s) == [s |-> s, raised |-> FALSE]
Failed(s) == [s |-> s, raised |-> TRUE]

JobIds(jobs) == {jobs[i] : i \in 1..Len(jobs)}

\* The job store after add_job on a running scheduler: an id already stored
\* is replaced when replace_existing is set and is a ConflictingIdError
\* otherwise
RealAddJob(s, id, replace) ==
    IF id \in JobIds(s.jobs)
    THEN IF replace THEN Done(s) ELSE Failed(s)
    ELSE Done([s EXCEPT !.jobs = Append(@, id)])

\* scheduler.add_job(..., id=id, replace_existing=replace)
AddJob(s, id, replace) ==
    IF s.running THEN RealAddJob(s, id, replace)
    ELSE Done([s EXCEPT !.pending_jobs = Append(@, <<id, replace>>)])

\* the pending jobs put into the job store by scheduler.start()
RECURSIVE AddPending(_)
AddPending(s) ==
    IF s.pending_jobs = <<>> THEN Done(s)
    ELSE LET r == RealAddJob(s, Head(s.pending_jobs)[1], Head(s.pending_jobs)[2]) IN
         IF r.raised THEN r
         ELSE AddPending([r.s EXCEPT !.pending_jobs = Tail(@)])

\* scheduler.start(): SchedulerAlreadyRunningError on a running scheduler
SchedulerStart(s) ==
    IF s.running THEN Failed(s)
    ELSE LET r == AddPending([s EXCEPT !.running = TRUE]) IN
         IF r.raised THEN Failed([r.s EXCEPT !.running = FALSE]) ELSE r

\* StartScheduler that does not look at HAS_SCHEDULER
StartScheduler_NoAvailabilityCheck(s) ==
    IF s.scheduler_started THEN Done(s)
    ELSE LET added == AddJob(AddJob(s, "calendar_auto_update", TRUE).s,
                             "calendar_initial_fetch", FALSE)
         IN IF added.raised THEN added
            ELSE LET started == SchedulerStart(added.s) IN
                 IF started.raised THEN started
                 ELSE Done([started.s EXCEPT !.scheduler_started = TRUE])

\* start_scheduler(db)
StartScheduler(s) ==
    IF s.has_scheduler # "yes" THEN Done(s)
    ELSE IF s.scheduler_started THEN Done(s)
    ELSE LET added == AddJob(AddJob(s, "calendar_auto_update", TRUE).s,
                             "calendar_initial_fetch", FALSE)
         IN IF added.raised THEN added
            ELSE LET started == SchedulerStart(added.s) IN
                 IF started.raised THEN started
                 ELSE Done([started.s EXCEPT !.scheduler_started = TRUE])

\* BaseScheduler.shutdown() with the in-memory job store: the scheduler stops
\* and the store is emptied
Shutdown(s) == [s EXCEPT !.running = FALSE, !.jobs = <<>>]

\* stop_scheduler(). AsyncIOScheduler.shutdown is run through
\* call_soon_threadsafe, that is later, by the event loop (deferred); a
\* release that runs it at once is the other outcome
StopScheduler(s, deferred) ==
    IF s.has_scheduler = "yes" /\ s.running
    THEN [(IF deferred THEN [s EXCEPT !.shutdowns = @ + 1] ELSE Shutdown(s))
             EXCEPT !.scheduler_started = FALSE]
    ELSE s

\* the import of the module: apscheduler is installed or not (lines 5-18)
import_service ==
    /\ sched.has_scheduler = "undecided"
    /\ \E installed \in BOOLEAN :
          sched' = [sched EXCEPT !.has_scheduler = IF installed THEN "yes" ELSE "no"]
    /\ UNCHANGED <<events, nextId, now, last, procs, annotations, limiter>>

start_scheduler ==
    /\ sched.has_scheduler # "undecided"
    /\ \E r \in {StartScheduler(sched)} :
          /\ sched' = r.s
          /\ last' = [NoCall EXCEPT !.op = "start_scheduler", !.raised = r.raised]
    /\ UNCHANGED <<events, nextId, now, procs, annotations, limiter>>

stop_scheduler ==
    /\ sched.has_scheduler # "undecided"
    /\ \E deferred \in BOOLEAN :
          /\ sched' = StopScheduler(sched, deferred)
          /\ sched'.shutdowns <= MaxShutdowns
    /\ last' = [NoCall EXCEPT !.op = "stop_scheduler"]
    /\ UNCHANGED <<events, nextId, now, procs, annotations, limiter>>

\* the event loop runs a waiting shutdown; on a scheduler already stopped it
\* raises SchedulerNotRunningError inside the loop's callback
event_loop_runs_shutdown ==
    /\ sched.shutdowns > 0
    /\ sched' = [(IF sched.running THEN Shutdown(sched) ELSE sched)
                    EXCEPT !.shutdowns = @ - 1]
    /\ UNCHANGED <<events, nextId, now, last, procs, annotations, limiter>>

\* the one-shot job comes due: the scheduler hands auto_update_calendar to the
\* loop and drops the job, whose date trigger has no further run time
initial_fetch_fires ==
    /\ sched.running
    /\ "calendar_initial_fetch" \in JobIds(sched.jobs)
    /\ sched' = [sched EXCEPT !.jobs = SelectSeq(@, LAMBDA j : j # "calendar_initial_fetch")]
    /\ UNCHANGED <<events, nextId, now, last, procs, annotations, limiter>>

\* The scheduler's lifecycle next to manually triggered cycles
NextScheduler ==
    \/ import_service
    \/ start_scheduler
    \/ stop_scheduler
    \/ event_loop_runs_shutdown
    \/ initial_fetch_fires
    \/ auto_update_calendar

SpecScheduler == Init /\ [][NextScheduler]_vars

\* ---------------------------------------------------------------- store outage
\* The store becomes unreachable during a cycle: the store operations of the
\* cycle are numbered from 1, the one numbered failAt and every later one
\* raise. o = [st, ops, failAt, later]: the sync state, the operations
\* attempted so far, and how many were attempted after the first error.
Attempt(o) ==
    [o EXCEPT !.ops = @ + 1,
              !.later = IF o.ops + 1 > o.failAt THEN @ + 1 ELSE @]

\* the operation just attempted raised
Unreachable(o) == o.ops >= o.failAt

\* One iteration of the sync loop: find_one, then insert_one or update_one
\* when something is to be written; an operation that raises ends the
\* iteration in the except clause (lines 90-92), which continues the loop
OutageOne(o, event, t) ==
    IF "unique_id" \notin DOMAIN event
    THEN [o EXCEPT !.st.failed = @ + 1]
    ELSE LET found == Attempt(o) IN
         IF Unreachable(found) THEN [found EXCEPT !.st.failed = @ + 1]
         ELSE LET existing == Existing(o.st.events, event.unique_id) IN
              IF existing # <<>> /\ ChangedFields(event, existing[1]) = {}
              THEN [found EXCEPT !.st = SyncWrite(@, event, existing, t)]
              ELSE LET written == Attempt(found) IN
                   IF Unreachable(written) THEN [written EXCEPT !.st.failed = @ + 1]
                   ELSE [written EXCEPT !.st = SyncWrite(@, event, existing, t)]

RECURSIVE OutageLoop(_, _, _)
OutageLoop(o, batch, t) ==
    IF batch = <<>> THEN o
    ELSE OutageLoop(OutageOne(o, Head(batch), t), Tail(batch), t)

\* The rest of auto_update_calendar after the sync loop ended in o: the
\* update_many of update_event_status_by_time is attempted; when it raises,
\* the except clause of auto_update_calendar (lines 289-292) logs and the
\* call ends normally
OutageEnd(o, t) ==
    LET status == Attempt(o) IN
    [events |-> IF Unreachable(status) THEN o.st.events
                ELSE UpdateEventStatusByTime(o.st.events, t),
     nextId |-> o.st.nextId,
     raised |-> FALSE,
     first_error |-> o.failAt,
     attempted |-> status.ops,
     later |-> status.later]

\* auto_update_calendar with the store failing from operation failAt on
AutoUpdateCalendarOutage(coll, id, fetched, t, failAt) ==
    OutageEnd(OutageLoop([st |-> [events |-> coll, nextId |-> id, counts |-> NoCounts,
                                  writes |-> <<>>, failed |-> 0],
                          ops |-> 0, failAt |-> failAt, later |-> 0],
                         fetched, t), t)

\* The store operations of the longest cycle: two per record and the status
\* update
MaxOps == 2 * MaxBatch + 1

\* a cycle during which the store becomes unreachable
auto_update_calendar_outage ==
    \E fh \in FinnhubResponses \ {<<>>}, failAt \in 1..MaxOps :
    \E r \in {AutoUpdateCalendarOutage(events, nextId, FetchFinnhubEvents(fh, now),
                                        now, failAt)} :
        /\ r.attempted >= failAt
        /\ events' = r.events
        /\ nextId' = r.nextId
        /\ last' = [NoCall EXCEPT !.op = "auto_update_calendar",
                       !.adapters = <<"finnhub">>, !.synced = TRUE,
                       !.raised = r.raised,
                       !.outage = <<[first_error |-> r.first_error,
                                     later |-> r.later]>>]
        /\ UNCHANGED <<now, procs, annotations, sched, limiter>>

\* Cycles with the store reachable and cycles it fails in
NextOutage ==
    \/ Tick
    \/ auto_update_calendar
    \/ auto_update_calendar_outage

SpecOutage == Init /\ [][NextOutage]_vars

\* ================================================================ claims
Docs == {events[i] : i \in 1..Len(events)}

IsEmpty(v) == v \in {NULL, ""}

\* Every event dict over the value sets, stamped with the fetch time t
RichEvents(t) ==
    {FetchedEvent(u, im, a, f, p, s, t) :
        u \in UniqueIds, im \in ImpactLevels, a \in ActualValues,
        f \in ForecastValues, p \in PreviousValues, s \in Statuses}

\* C1: a stored event whose status is 'released' still has status 'released'
\* after every sync_events_to_db, update_event_status and
\* update_event_status_by_time call.
C1_StatusMonotonic ==
    [][\A i \in 1..Len(events) :
          events[i].status = "released" => events'[i].status = "released"]_vars

\* C2: for every batch (also one repeating a unique_id), a second
\* sync_events_to_db of the same batch right after the first creates nothing,
\* updates nothing and leaves the collection as the first call left it.
C2_SyncIdempotent ==
    \A b \in AnyBatches :
    \A first \in {SyncEventsToDb(events, nextId, FetchedAt(b, now), now)} :
    \A second \in {SyncEventsToDb(first.events, first.nextId, FetchedAt(b, now), now)} :
           /\ second.result.created = 0
           /\ second.result.updated = 0
           /\ second.writes = <<>>
           /\ second.events = first.events

\* C3: syncing a record whose unique_id is stored writes exactly the fields
\* among actual, forecast, previous, status whose fetched value differs from
\* the stored one, plus updated_at and fetched_at (nothing at all when none
\* differs); every other field of the event, and every other event, is left
\* as it was.
C3_FieldScopedUpdate ==
    \A ev \in RichEvents(now) :
        LET i    == FindOne(events, ev.unique_id)
            r    == SyncEventsToDb(events, nextId, <<ev>>, now)
            diff == {f \in {"actual", "forecast", "previous", "status"} :
                        ev[f] # events[i][f]}
            wr   == diff \cup {"updated_at", "fetched_at"}
        IN i # 0 =>
           /\ Len(r.events) = Len(events)
           /\ diff = {} => (r.writes = <<>> /\ r.events = events)
           /\ diff # {} =>
                /\ Len(r.writes) = 1
                /\ r.writes[1].op = "update"
                /\ r.writes[1].id = events[i]._id
                /\ r.writes[1].fields = wr
                /\ \A j \in 1..Len(events) : \A f \in DOMAIN events[j] :
                      r.events[j][f] =
                         IF j = i /\ f \in wr
                         THEN (IF f = "updated_at" THEN now ELSE ev[f])
                         ELSE events[j][f]

\* C3 witness: two events are stored, one was created at an earlier time, and
\* a record for it that differs in actual alone makes the sync write exactly
\* actual, updated_at and fetched_at.
C3_Witness ==
    /\ Len(events) = 2
    /\ \E ev \in RichEvents(now) :
          LET i == FindOne(events, ev.unique_id) IN
          /\ i # 0
          /\ events[i].created_at < now
          /\ ev.impact_level # events[i].impact_level
          /\ {f \in ComparedFields : ev[f] # events[i][f]} = {"actual"}
          /\ SyncEventsToDb(events, nextId, <<ev>>, now).writes[1].fields
                = {"actual", "updated_at", "fetched_at"}

\* C4: no two stored events have the same unique_id.
C4_UniqueIdIsKey ==
    \A i, j \in 1..Len(events) :
        events[i].unique_id = events[j].unique_id => i = j

\* C4 witness: both events are stored and one of them was written again by a
\* later sync, so its unique_id was looked up while stored.
C4_Witness ==
    /\ Len(events) = 2
    /\ \E d \in Docs : d.fetched_at > d.created_at

\* C5: when two overlapping cycles have both finished, every unique_id that
\* both fetched and that was not stored when either of them started is stored
\* exactly once.
C5_ConcurrentUpsert ==
    (\A p \in Procs : procs[p].pc = "done") =>
        \A u \in UniqueIds :
            (\A p \in Procs :
                /\ u \in {procs[p].batch[k].unique_id : k \in 1..Len(procs[p].batch)}
                /\ u \notin procs[p].had)
            => Cardinality(Matching(events, u)) = 1

\* C6: a cycle invokes Finnhub first; when Finnhub gives a non-empty list it
\* invokes nothing else and syncs that list; when Finnhub gives nothing it
\* invokes FairEconomy next and syncs what FairEconomy gave.
C6_FallbackOrder ==
    /\ \A fh \in FinnhubResponses :
       \A fe \in {q \in FairResponses : fh = <<>> \/ Len(q) <= 1} :
       \A r \in {AutoUpdateCalendar(events, nextId, fh, fe, now)} :
          IF fh # <<>>
          THEN r.adapters = <<"finnhub">> /\ r.synced = FetchFinnhubEvents(fh, now)
          ELSE /\ r.adapters = <<"finnhub", "fair_economy">>
               /\ r.synced = FetchFairEconomyEvents(fe, now)
    /\ last.op = "auto_update_calendar" =>
          /\ last.adapters \in {<<"finnhub">>, <<"finnhub", "fair_economy">>}
          /\ last.adapters = <<"finnhub">> => last.synced

\* C6 witness: the last cycle fell back to FairEconomy and stored its event.
C6_Witness ==
    /\ last.op = "auto_update_calendar"
    /\ last.adapters = <<"finnhub", "fair_economy">>
    /\ last.synced
    /\ \E d \in Docs : d.unique_id \in FairIds /\ d.created_at = now

\* C7: a cycle in which every adapter returned an empty list leaves the
\* events collection exactly as it was.
C7_FailedFetchKeepsData ==
    [][(last'.op = "auto_update_calendar" /\ ~last'.synced) => events' = events]_vars

\* C7 witness: a cycle with nothing fetched has just ended on a non-empty
\* collection.
C7_Witness ==
    /\ last.op = "auto_update_calendar"
    /\ last.adapters = <<"finnhub", "fair_economy">>
    /\ ~last.synced
    /\ events # <<>>

\* C8: when a cycle that synced a non-empty batch has ended, no stored event
\* is 'upcoming' with a non-empty actual.
C8_Rule1AfterCycle ==
    (last.op = "auto_update_calendar" /\ last.synced) =>
        \A d \in Docs : ~(d.status = "upcoming" /\ ~IsEmpty(d.actual))

\* C8 witness: a cycle has just synced; an event created earlier is now
\* written with actual "0.4%" and is released.
C8_Witness ==
    /\ last.op = "auto_update_calendar" /\ last.synced
    /\ \E d \in Docs :
          /\ d.created_at < now /\ d.updated_at = now /\ d.fetched_at = now
          /\ d.actual = "0.4%" /\ d.status = "released"

\* C9: when a cycle that synced a non-empty batch has ended, no stored event
\* is 'upcoming' with an empty actual and an event_time_utc before the
\* cycle's time.
C9_Rule2AfterCycle ==
    (last.op = "auto_update_calendar" /\ last.synced) =>
        \A d \in Docs :
            ~(d.status = "upcoming" /\ IsEmpty(d.actual) /\ d.event_time_utc[2] < now)

\* C10 as claimed: the lookup answers the earliest stored event with impact
\* 'high' and status 'upcoming', and answers none only when there is none.
C10_NextHighAmongUpcoming ==
    LET H   == {d \in Docs : d.impact_level = "high" /\ d.status = "upcoming"}
        ans == CalculateNextHighImpact(events, now)
    IN /\ (ans = <<>>) <=> (H = {})
       /\ ans # <<>> =>
            /\ ans[1] \in H
            /\ \A d \in H : ans[1].event_time_utc[2] <= d.event_time_utc[2]

\* C10 amended: the lookup answers the earliest stored event with impact
\* 'high', status 'upcoming' and event_time_utc not before the current time,
\* and answers none only when there is no such event; the answer of the last
\* lookup call is that event.
C10_NextHighNotPast ==
    LET H   == {d \in Docs : /\ d.impact_level = "high"
                             /\ d.status = "upcoming"
                             /\ d.event_time_utc[2] >= now}
        ans == CalculateNextHighImpact(events, now)
    IN /\ (ans = <<>>) <=> (H = {})
       /\ ans # <<>> =>
            /\ ans[1] \in H
            /\ \A d \in H : ans[1].event_time_utc[2] <= d.event_time_utc[2]
       /\ last.op = "calculate_next_high_impact" => last.answer = ans

\* C10 witness: two high-impact upcoming events at different future times are
\* stored and the last lookup answered the earlier one.
C10_Witness ==
    /\ last.op = "calculate_next_high_impact"
    /\ last.answer # <<>>
    /\ \E d \in Docs :
          /\ d.impact_level = "high" /\ d.status = "upcoming"
          /\ d.event_time_utc[2] > last.answer[1].event_time_utc[2]

\* The records of a batch whose processing fails: those without unique_id
Failing(batch) == {k \in 1..Len(batch) : "unique_id" \notin DOMAIN batch[k]}

\* The batch without its failing records
RECURSIVE Sound(_)
Sound(batch) ==
    IF batch = <<>> THEN <<>>
    ELSE IF "unique_id" \notin DOMAIN Head(batch) THEN Sound(Tail(batch))
    ELSE <<Head(batch)>> \o Sound(Tail(batch))

\* The number of records of a batch that sync_events_to_db, started on coll,
\* finds stored with the four compared fields equal to the fetched ones
RECURSIVE FoundUnchanged(_, _, _, _)
RECURSIVE FoundUnchangedRest(_, _, _)
FoundUnchanged(coll, id, batch, t) ==
    IF batch = <<>> THEN 0
    ELSE (IF /\ "unique_id" \in DOMAIN Head(batch)
             /\ FindOne(coll, Head(batch).unique_id) # 0
             /\ \A f \in {"actual", "forecast", "previous", "status"} :
                   Head(batch)[f] = coll[FindOne(coll, Head(batch).unique_id)][f]
          THEN 1 ELSE 0)
         + FoundUnchangedRest(SyncEventsToDb(coll, id, <<Head(batch)>>, t), Tail(batch), t)

FoundUnchangedRest(r, rest, t) == FoundUnchanged(r.events, r.nextId, rest, t)

\* C18: for every batch and store, the counts sync_events_to_db returns are:
\* total = the records in the batch, created = the inserts performed,
\* updated = the update writes performed, skipped = the records found stored
\* with no differing field, and created + updated + skipped = total minus the
\* records whose processing failed.
C18_CountsExact ==
    \A b \in AnyBatches :
    \A r \in {SyncEventsToDb(events, nextId, FetchedAt(b, now), now)} :
        /\ r.result.total = Len(b)
        /\ r.result.created = Len(r.events) - Len(events)
        /\ r.result.created = Cardinality({k \in 1..Len(r.writes) : r.writes[k].op = "insert"})
        /\ r.result.updated = Cardinality({k \in 1..Len(r.writes) : r.writes[k].op = "update"})
        /\ r.result.skipped = FoundUnchanged(events, nextId, FetchedAt(b, now), now)
        /\ r.result.created + r.result.updated + r.result.skipped
              = r.result.total - Cardinality(Failing(b))

\* C18 witness: two events are stored; one batch of two records updates one
\* and skips the other, and another batch updates one and fails on the other.
C18_Witness ==
    /\ Len(events) = 2
    /\ \E b \in AnyBatches :
       \E r \in {SyncEventsToDb(events, nextId, FetchedAt(b, now), now)} :
          r.result = [created |-> 0, updated |-> 1, skipped |-> 1, total |-> 2]
    /\ \E b \in AnyBatches :
       \E r \in {SyncEventsToDb(events, nextId, FetchedAt(b, now), now)} :
          /\ r.result = [created |-> 0, updated |-> 1, skipped |-> 0, total |-> 2]
          /\ r.failed = 1

\* C19: when the k-th record of a batch fails, the call still returns counts,
\* the store and the counts are what the sync of the batch without the
\* failing records gives (so the writes for the records before k stay and the
\* records after k are processed as usual), and only total counts the
\* failing records.
C19_FailureDoesNotAbort ==
    \A b \in {q \in AnyBatches : Failing(q) # {}} :
    \A r \in {SyncEventsToDb(events, nextId, FetchedAt(b, now), now)} :
    \A g \in {SyncEventsToDb(events, nextId, FetchedAt(Sound(b), now), now)} :
        /\ r.events = g.events
        /\ r.writes = g.writes
        /\ r.result = [g.result EXCEPT !.total = Len(b)]
        /\ r.failed = Cardinality(Failing(b))

\* C19 witness: an event is stored; a batch whose first record fails still
\* updates the stored event with its second record, and a batch whose second
\* record fails keeps the insert made for its first.
C19_Witness ==
    /\ Len(events) = 1
    /\ \E b \in AnyBatches :
       \E r \in {SyncEventsToDb(events, nextId, FetchedAt(b, now), now)} :
          /\ Failing(b) = {1}
          /\ Len(r.writes) = 1
          /\ r.writes[1].op = "update" /\ r.writes[1].id = events[1]._id
    /\ \E b \in AnyBatches :
       \E r \in {SyncEventsToDb(events, nextId, FetchedAt(b, now), now)} :
          /\ Failing(b) = {2}
          /\ Len(r.events) = 2
          /\ r.writes[1].op = "insert"

\* C20: a cycle that ran fetch, sync and status update returns to its caller
\* the counts of the sync it performed.
C20_CycleReturnsCounts ==
    /\ \A fh \in FinnhubResponses :
       \A r \in {AutoUpdateCalendar(events, nextId, fh, <<>>, now)} :
          r.synced # <<>> => r.returned = r.result
    /\ (last.op = "auto_update_calendar" /\ last.synced) => last.returned # <<>>

\* C16: whatever its upstream does (network error, 403, another error status,
\* unparseable payload, empty payload), each of fetch_finnhub_events,
\* fetch_fair_economy_events and scrape_calendar_page returns a list and
\* raises nothing, and the list is empty when the source read last failed.
C16_AdaptersNeverRaise ==
    /\ \A up \in Upstreams(FinnhubResponses) :
       \A o \in {FinnhubRequest(up, now)} :
          ~o.raised /\ (up.kind # "ok" => o.value = <<>>)
    /\ \A up \in Upstreams(FairResponses) :
       \A o \in {FairRequest(up, now)} :
          ~o.raised /\ (up.kind # "ok" => o.value = <<>>)
    /\ \A pw \in PlaywrightOutcomes, fb \in Upstreams(ScrapedPages) :
       \A o \in {ScrapeCalendarPage(pw, fb, now)} :
          ~o.raised /\ ((pw.kind # "ok" /\ fb.kind # "ok") => o.value = <<>>)
    /\ last.op \in {"fetch_finnhub_events", "fetch_fair_economy_events",
                    "scrape_calendar_page"} =>
          /\ ~last.raised
          /\ last.upstream[Len(last.upstream)] # "ok" => last.answer = <<>>

\* C16 witness: the scraper's page load failed on the network, its fallback
\* got a 403, and the call answered the empty list.
C16_Witness ==
    /\ last.op = "scrape_calendar_page"
    /\ last.upstream = <<"network_error", "http_403">>
    /\ ~last.raised
    /\ last.answer = <<>>

\* C17: whatever the interleaving of overlapping scraper calls, any two
\* upstream requests of the scraper are at least RATE_LIMIT_SECONDS apart.
C17_CooldownUnderConcurrency ==
    issued.gap >= RATE_LIMIT_SECONDS

\* C11: for every store and every combination of filters,
\* get_events_with_filters returns exactly the stored events that satisfy
\* every supplied filter (event_date in [start_date, end_date], currency in
\* currencies, impact_level 'high' under high_impact_only and else in impacts,
\* the search word in the name, status equal); a filter not supplied (None or
\* an empty list) excludes nothing.
C11_FiltersConjoin ==
    \A f \in Filters :
    \A ans \in {GetEventsWithFilters(events, marks, notes, links, "u1", f)} :
        {ans[i]._id : i \in 1..Len(ans)} =
        {StrOfId(d._id) : d \in
            {e \in Docs :
               /\ f.start_date = <<>> \/ e.event_date[2] >= f.start_date[1]
               /\ f.end_date = <<>> \/ e.event_date[2] <= f.end_date[1]
               /\ f.currencies = {} \/ e.currency \in f.currencies
               /\ \/ f.high_impact_only /\ e.impact_level = "high"
                  \/ ~f.high_impact_only /\ f.impacts = {}
                  \/ ~f.high_impact_only /\ e.impact_level \in f.impacts
               /\ f.search_query = NULL
                     \/ (f.search_query = "Core" /\ e.event_name = "Core CPI")
               /\ f.status = NULL \/ e.status = f.status}}

\* C11 witness: a USD/high event and a EUR event are stored, and the filter
\* currencies = [USD], impacts = [high] answers the first one only.
C11_Witness ==
    /\ Len(events) = 2
    /\ \E d \in Docs : d.currency = "USD" /\ d.impact_level = "high"
    /\ \E d \in Docs : d.currency = "EUR" /\ d.impact_level = "high"
    /\ \A ans \in {GetEventsWithFilters(events, marks, notes, links, "u1",
                        [NoFilters EXCEPT !.currencies = {"USD"}, !.impacts = {"high"}])} :
          /\ Len(ans) = 1
          /\ ans[1].currency = "USD" /\ ans[1].impact_level = "high"

\* What get_events_with_filters shows user u when no filter is given
View(u) == GetEventsWithFilters(events, marks, notes, links, u, NoFilters)

\* The documents of a collection that belong to user u
OwnDocs(coll, u) == SelectSeq(coll, LAMBDA d : d.user_id = u)

AnnotationOps == {"mark_event_important", "add_event_note", "link_event_to_trade"}

\* C12: for every user u and stored event e, the is_marked, notes_count and
\* linked_trades_count that get_events_with_filters returns for u are computed
\* only from u's own marks, notes and trade links on e: is_marked is the flag
\* of u's most recent mark_event_important call for e (false when u never
\* marked e), and no annotation operation by another user changes any value
\* that u is shown.
C12_PerUserEnrichment ==
    /\ [](\A u \in Users : \A v \in {View(u)} :
            /\ v = GetEventsWithFilters(events, OwnDocs(marks, u), OwnDocs(notes, u),
                                        OwnDocs(links, u), u, NoFilters)
            /\ \A i \in 1..Len(v) :
                 /\ v[i]._id \in EventIds =>
                        v[i].is_marked = (flagged[u][v[i]._id] = "true")
                 /\ v[i].notes_count = Cardinality(Of(notes, u, v[i]._id))
                 /\ v[i].linked_trades_count = Cardinality(Of(links, u, v[i]._id)))
    /\ [][\A u \in Users :
            (last'.op \in AnnotationOps /\ last'.user # u) =>
                GetEventsWithFilters(events', marks', notes', links', u, NoFilters)
                    = View(u)]_vars

\* C12 witness: event 1 is stored, u1 has marked it important and u2 has
\* marked it not important; each is shown their own flag.
C12_Witness ==
    /\ flagged["u1"][StrOfId(1)] = "true"
    /\ flagged["u2"][StrOfId(1)] = "false"
    /\ \E i \in 1..Len(View("u1")) :
         /\ View("u1")[i]._id = StrOfId(1)
         /\ View("u1")[i].is_marked
         /\ ~View("u2")[i].is_marked

\* Two links of the same user, event and trade
SameTriple(a, b) ==
    a.user_id = b.user_id /\ a.event_id = b.event_id /\ a.trade_id = b.trade_id

\* C13: for every (user_id, event_id, trade_id), link_event_to_trade called
\* when a link for that triple already exists inserts nothing and returns the
\* existing link, so after any sequence of sequential link_event_to_trade calls
\* the store holds at most one link per triple.
C13_LinkIdempotent ==
    /\ [](\A i, j \in 1..Len(links) : SameTriple(links[i], links[j]) => i = j)
    /\ [][last'.op = "link_event_to_trade" =>
            \A i \in LinksOf(links, last'.user, last'.args[1], last'.args[2]) :
                links' = links /\ last'.answer = <<links[i]>>]_vars

\* C13 witness: two links are stored and the last call, for the triple of the
\* first one, returned the first one.
C13_Witness ==
    /\ last.op = "link_event_to_trade"
    /\ Len(links) = 2
    /\ last.answer = <<links[1]>>
    /\ links[1].trade_id = last.args[2]
    /\ ~SameTriple(links[1], links[2])

\* C14: add_event_note for a (user_id, event_id) pair that already has a note
\* replaces that note's text and updated_at, keeps its created_at and inserts
\* nothing; only when the pair has no note is one inserted; so there is at most
\* one note per (user_id, event_id) and, after a call, the pair's note holds
\* the text of that call.
C14_NoteUpdatedInPlace ==
    /\ [](\A i, j \in 1..Len(notes) :
            (notes[i].user_id = notes[j].user_id /\ notes[i].event_id = notes[j].event_id)
                => i = j)
    /\ [](last.op = "add_event_note" =>
            /\ Of(notes, last.user, last.args[1]) # {}
            /\ \A i \in Of(notes, last.user, last.args[1]) :
                   notes[i].note_text = last.args[2])
    /\ [][last'.op = "add_event_note" =>
            IF Of(notes, last'.user, last'.args[1]) # {}
            THEN /\ Len(notes') = Len(notes)
                 /\ \A i \in 1..Len(notes) :
                      IF i \in Of(notes, last'.user, last'.args[1])
                      THEN notes'[i] = [notes[i] EXCEPT !.note_text = last'.args[2],
                                                         !.updated_at = now]
                      ELSE notes'[i] = notes[i]
            ELSE notes' = Append(notes, [user_id |-> last'.user,
                                         event_id |-> last'.args[1],
                                         note_text |-> last'.args[2],
                                         created_at |-> now, updated_at |-> now])]_vars

\* C14 witness: two notes are stored and the last call rewrote one of them
\* after it was created, with a new text.
C14_Witness ==
    /\ last.op = "add_event_note"
    /\ Len(notes) = 2
    /\ \E i \in Of(notes, last.user, last.args[1]) :
         /\ notes[i].created_at < notes[i].updated_at
         /\ notes[i].note_text = last.args[2]
         /\ last.answer = <<notes[i]>>

\* The stored events that the query service returns under the identifier eid
KnownAs(eid) == {i \in 1..Len(events) : StrOfId(events[i]._id) = eid}

\* C15: for every stored event and every identifier under which the query
\* service returns it, create_reminder stores one reminder with is_sent false
\* and reminder_time = the event's event_time_utc minus minutes_before; it
\* fails with 'Event not found', storing nothing, only when no stored event has
\* that identifier.
C15_ReminderCreated ==
    last.op = "create_reminder" =>
        IF KnownAs(last.args[1]) = {} THEN last.raised
        ELSE /\ ~last.raised
             /\ \E j \in 1..Len(reminders) :
                  /\ last.answer = <<reminders[j]>>
                  /\ ~reminders[j].is_sent
                  /\ \E i \in KnownAs(last.args[1]) :
                       reminders[j].reminder_time =
                           BsonDate(events[i].event_time_utc[2] - last.args[2])

\* C22: in every sequence of sync_events_to_db calls with any fetched
\* batches, once a stored event's actual is non-empty it never becomes empty
\* (null or "") in any later state.
C22_ActualNeverRegresses ==
    [][\A i \in 1..Len(events) :
          ~IsEmpty(events[i].actual) => ~IsEmpty(events'[i].actual)]_vars

\* C25: update_event_status changes to 'released' exactly the stored events
\* that have status 'upcoming' and a non-empty actual; an upcoming event whose
\* actual is null or "" is left 'upcoming', and no field other than status and
\* updated_at is changed on any event.
C25_Rule1OnlyWithValue ==
    \A after \in {UpdateEventStatus(events, now)} :
        /\ Len(after) = Len(events)
        /\ \A i \in 1..Len(events) :
             IF events[i].status = "upcoming" /\ ~IsEmpty(events[i].actual)
             THEN after[i] = [events[i] EXCEPT !.status = "released", !.updated_at = now]
             ELSE after[i] = events[i]

\* C27: when two consecutive auto_update_calendar cycles fetch the identical
\* batch from the same adapter and the clock does not move between them, the
\* second cycle (sync plus status update) performs no write to the events
\* collection.
C27_CycleFixedPoint ==
    \A fh \in FinnhubResponses :
    \A fe \in (IF fh # <<>> THEN {<<>>} ELSE FairResponses) :
    \A first \in {AutoUpdateCalendar(events, nextId, fh, fe, now)} :
    \A second \in {AutoUpdateCalendar(first.events, first.nextId, fh, fe, now)} :
        /\ second.writes = <<>>
        /\ second.events = first.events

\* The operations of calendar_crud and the queries of the service
ReadOrAnnotateOps ==
    AnnotationOps \cup {"create_reminder", "delete_reminder", "get_events_with_filters",
                        "get_event_notes", "get_linked_trades", "get_user_reminders",
                        "calculate_next_high_impact"}

\* C23: the events collection is modified only by sync_events_to_db,
\* update_event_status and update_event_status_by_time, none of which deletes
\* an event or touches an annotation collection; every mark, note, reminder
\* and trade-link operation and every query leaves the events collection
\* unchanged, so the stored unique_ids never shrink.
C23_EventsAndAnnotationsIndependent ==
    [][/\ Len(events') >= Len(events)
       /\ \A i \in 1..Len(events) :
            events'[i].unique_id = events[i].unique_id /\ events'[i]._id = events[i]._id
       /\ events' # events =>
            /\ UNCHANGED <<marks, notes, links, reminders>>
            /\ \/ last'.op = "run_scraper"
               \/ /\ last' = last
                  /\ events' \in {UpdateEventStatus(events, now),
                                  UpdateEventStatusByTime(events, now)}
       /\ (last' # last /\ last'.op \in ReadOrAnnotateOps) => events' = events]_vars

\* C23 witness: with a released event stored and a mark and a link on it, a
\* note call has just been served and found the event list as it was.
C23_Witness ==
    /\ last.op = "add_event_note"
    /\ \E i \in 1..Len(events) : events[i].status = "released"
    /\ Len(marks) = 1
    /\ Len(notes) = 1
    /\ Len(events) = 2

\* C21: when the store becomes unreachable during an auto_update_calendar
\* cycle, the cycle attempts no further store operation after the first
\* unreachable error and raises nothing to its caller.
C21_OutageEndsCycle ==
    (last.op = "auto_update_calendar" /\ last.outage # <<>>) =>
        /\ ~last.raised
        /\ last.outage[1].later = 0

\* C24: when the scheduling library is unavailable, start_scheduler returns
\* without raising, registers no job and leaves scheduler_started false,
\* stop_scheduler is a no-op, and a manually triggered auto_update_calendar
\* still runs the full fetch, sync and status-update cycle.
C24_NoSchedulerIsDegradation ==
    /\ [](sched.has_scheduler = "no" =>
            /\ sched = [NotImported EXCEPT !.has_scheduler = "no"]
            /\ last.op \in {"start_scheduler", "stop_scheduler"} => ~last.raised)
    /\ [][(sched.has_scheduler = "no" /\ last'.op = "auto_update_calendar"
             /\ last' # last) =>
            \E fh \in FinnhubResponses :
            \E fe \in (IF fh # <<>> THEN {<<>>} ELSE FairResponses) :
            \E r \in {AutoUpdateCalendar(events, nextId, fh, fe, now)} :
                /\ events' = r.events
                /\ last'.adapters = r.adapters
                /\ last'.synced = (r.synced # <<>>)]_vars

\* C24 witness: without the scheduling library a manual cycle has synced an
\* event into the store.
C24_Witness ==
    /\ sched.has_scheduler = "no"
    /\ last.op = "auto_update_calendar"
    /\ last.synced
    /\ events # <<>>

\* C26: in every sequence of start_scheduler and stop_scheduler calls the
\* periodic job and the one-shot startup job are each registered at most once
\* at any time, and scheduler_started is true exactly when the underlying
\* scheduler is running.
C26_SchedulerLifecycle ==
    /\ \A i, j \in 1..Len(sched.jobs) : sched.jobs[i] = sched.jobs[j] => i = j
    /\ sched.scheduler_started = sched.running

\* The accounts of the free tier: no user found, or subscription_tier 'free'
FreeAccounts == {a \in Accounts : a = <<>> \/ (\E v \in {"free"} :
                    a = <<[user_id |-> "u1", subscription_tier |-> v]>>)}

\* C29: for a requesting user whose subscription tier is 'free' or who is not
\* found, and for every combination of request parameters, every event
\* returned by the /events query has currency 'USD', impact_level in
\* {high, medium} (only high when high_impact_only is set) and event_date
\* within the current UTC day.
C29_FreeTierNarrowed ==
    \A account \in FreeAccounts, f \in BypassAttempts :
    \A found \in {GetCalendarEvents(events, marks, notes, links, "u1", account, f,
                                    1, now)} :
    \A i \in 1..Len(found) :
        /\ found[i].currency = "USD"
        /\ found[i].impact_level \in
              (IF f.high_impact_only THEN {"high"} ELSE {"high", "medium"})
        /\ found[i].event_date = BsonDate(DayStart(now))

\* C29 witness: the store holds today's USD medium event and a EUR event; a
\* request of a user of the free tier was answered with the USD event alone.
C29_Witness ==
    /\ last.op = "get_calendar_events"
    /\ last.args[1] \in FreeAccounts
    /\ Len(last.answer) = 1
    /\ last.answer[1].unique_id = "q_2"
    /\ \E i \in 1..Len(events) : events[i].unique_id = "q_4"

\* A stored event of this unique_id is 'upcoming' and its time has passed
PastUpcoming(uid) ==
    \E d \in Docs : d.unique_id = uid /\ d.status = "upcoming" /\ d.event_time_utc[2] < now

\* A cycle has just ended
CycleRan == last.op = "auto_update_calendar"

\* C28: when cycles keep being run, every stored event with status 'upcoming'
\* whose event_time_utc has passed eventually has status 'released'.
C28_PastEventsReleased ==
    \A uid \in UniqueIds :
        []<>CycleRan =>
            (PastUpcoming(uid) ~>
                (\A d \in Docs : d.unique_id = uid => d.status = "released"))

\* No call is between its find_one and its write
NoRequestInFlight == \A p \in Procs : procs[p].pc \in {"idle", "done"}

\* C30: when two concurrent add_event_note calls for the same (user_id,
\* event_id), or two concurrent link_event_to_trade calls for the same
\* (user_id, event_id, trade_id), have ended, the store holds exactly one note
\* for the pair and exactly one link for the triple.
C30_AnnotationKeysUnique ==
    NoRequestInFlight =>
        \A p \in Procs : procs[p].pc = "done" =>
            \A call \in {procs[p].batch[1]} :
                IF call.op = "add_event_note"
                THEN Cardinality(Of(notes, call.user_id, call.event_id)) = 1
                ELSE Cardinality(LinksOf(links, call.user_id, call.event_id,
                                         call.trade_id)) = 1

====
